---------------------------- MODULE Spec2Model ----------------------------
(***************************************************************************)
(* Model of src/src/transform.rs: the three transformers overwrite,        *)
(* obfuscate and mask, their shared validate_request, and the gjson and    *)
(* sha256 collaborators they call.                                         *)
(*                                                                         *)
(* A document is a sequence of bytes.  A byte is written as a one-character*)
(* string when it is ASCII and as "xHH" when it is not ("xC3", "xA9" are   *)
(* the two bytes of U+00E9, "xFF" is a byte no UTF-8 text holds).          *)
(***************************************************************************)
EXTENDS Integers, Sequences, FiniteSets, TLC

(***************************************************************************)
(* Bytes and UTF-8 (std::str::from_utf8, str::is_char_boundary)            *)
(***************************************************************************)
Lead2 == {"xC3"}
Lead3 == {"xE2"}
Cont == {"x82", "xA9", "xAC"}
NonUtf8 == {"xFF"}

IsAscii(b) == b \notin (Lead2 \cup Lead3 \cup Cont \cup NonUtf8)

RECURSIVE Utf8From(_, _)
\* TRUE iff bytes[i..] is a sequence of well-formed UTF-8 characters
Utf8From(bytes, i) ==
  IF i > Len(bytes) THEN TRUE
  ELSE IF IsAscii(bytes[i]) THEN Utf8From(bytes, i + 1)
  ELSE IF bytes[i] \in Lead2
    THEN /\ i + 1 <= Len(bytes)
         /\ bytes[i + 1] \in Cont
         /\ Utf8From(bytes, i + 2)
  ELSE IF bytes[i] \in Lead3
    THEN /\ i + 2 <= Len(bytes)
         /\ bytes[i + 1] \in Cont
         /\ bytes[i + 2] \in Cont
         /\ Utf8From(bytes, i + 3)
  ELSE FALSE

\* convert_bytes_to_string: Ok(&str) iff the bytes are valid UTF-8
convert_bytes_to_string(bytes) ==
  IF Utf8From(bytes, 1) THEN [ok |-> TRUE, str |-> bytes]
  ELSE [ok |-> FALSE, str |-> <<>>]

\* str::is_char_boundary(n) for a 0-based byte offset n into the str s
is_char_boundary(s, n) ==
  \/ n = 0
  \/ n = Len(s)
  \/ n < Len(s) /\ s[n + 1] \notin Cont

(***************************************************************************)
(* gjson::valid: the JSON grammar.  Each scanner takes the index of the    *)
(* next byte to read and returns the index after what it accepted, or 0.   *)
(***************************************************************************)
Whitespace == {" ", "\t", "\n", "\r"}
Control == {"\t", "\n", "\r"}
Digits == {"0", "1", "2", "3", "4", "5", "6", "7", "8", "9"}
HexDigits == Digits \cup {"a", "b", "c", "d", "e", "f", "A", "B", "C", "D", "E", "F"}
SimpleEscapes == {"\"", "\\", "/", "b", "f", "n", "r", "t"}

RECURSIVE SkipWs(_, _)
SkipWs(d, i) ==
  IF i <= Len(d) /\ d[i] \in Whitespace THEN SkipWs(d, i + 1) ELSE i

RECURSIVE SkipDigits(_, _)
SkipDigits(d, i) ==
  IF i <= Len(d) /\ d[i] \in Digits THEN SkipDigits(d, i + 1) ELSE i

RECURSIVE ValidString(_, _)
\* i is the index after the opening quote
ValidString(d, i) ==
  IF i > Len(d) THEN 0
  ELSE IF d[i] \in Control THEN 0
  ELSE IF d[i] = "\"" THEN i + 1
  ELSE IF d[i] = "\\"
    THEN IF i + 1 > Len(d) THEN 0
         ELSE IF d[i + 1] \in SimpleEscapes THEN ValidString(d, i + 2)
         ELSE IF d[i + 1] = "u"
           THEN IF /\ i + 5 <= Len(d)
                   /\ \A k \in 2..5 : d[i + k] \in HexDigits
                THEN ValidString(d, i + 6)
                ELSE 0
         ELSE 0
  ELSE ValidString(d, i + 1)

NumberInt(d, s) ==
  IF s > Len(d) \/ d[s] \notin Digits THEN 0
  ELSE IF d[s] = "0" THEN s + 1
  ELSE SkipDigits(d, s)

\* a is the index after the integer part, 0 when there was none
NumberFrac(d, a) ==
  IF a = 0 THEN 0
  ELSE IF a <= Len(d) /\ d[a] = "."
    THEN IF a + 1 <= Len(d) /\ d[a + 1] \in Digits THEN SkipDigits(d, a + 1) ELSE 0
  ELSE a

NumberExpDigits(d, x) ==
  IF x <= Len(d) /\ d[x] \in Digits THEN SkipDigits(d, x) ELSE 0

\* f is the index after the fraction, 0 when the number is malformed
NumberExp(d, f) ==
  IF f = 0 THEN 0
  ELSE IF f <= Len(d) /\ d[f] \in {"e", "E"}
    THEN NumberExpDigits(d, IF f + 1 <= Len(d) /\ d[f + 1] \in {"+", "-"}
                            THEN f + 2 ELSE f + 1)
  ELSE f

\* i is the index of the first byte of the number ('-' or a digit)
ValidNumber(d, i) ==
  NumberExp(d, NumberFrac(d, NumberInt(d, IF d[i] = "-" THEN i + 1 ELSE i)))

\* the literal word lit starts at index i
ValidLiteral(d, i, lit) ==
  IF i + Len(lit) - 1 <= Len(d) /\ SubSeq(d, i, i + Len(lit) - 1) = lit
  THEN i + Len(lit)
  ELSE 0

RECURSIVE ValidAny(_, _)
RECURSIVE ValidMembers(_, _)
RECURSIVE ValidElements(_, _)

\* s is the index after a member's value and the whitespace behind it
MemberNext(d, s) ==
  IF s = 0 \/ s > Len(d) THEN 0
  ELSE IF d[s] = "}" THEN s + 1
  ELSE IF d[s] = "," THEN ValidMembers(d, s + 1)
  ELSE 0

MemberSep(d, v) == MemberNext(d, IF v = 0 THEN 0 ELSE SkipWs(d, v))

\* c is the index where the colon is expected
MemberValue(d, c) ==
  MemberSep(d, IF c = 0 \/ c > Len(d) \/ d[c] # ":" THEN 0 ELSE ValidAny(d, c + 1))

MemberColon(d, a) == MemberValue(d, IF a = 0 THEN 0 ELSE SkipWs(d, a))

\* k is the index where a key's opening quote is expected
MemberKey(d, k) ==
  MemberColon(d, IF k <= Len(d) /\ d[k] = "\"" THEN ValidString(d, k + 1) ELSE 0)

ValidMembers(d, i) == MemberKey(d, SkipWs(d, i))

ElementNext(d, s) ==
  IF s = 0 \/ s > Len(d) THEN 0
  ELSE IF d[s] = "]" THEN s + 1
  ELSE IF d[s] = "," THEN ValidElements(d, s + 1)
  ELSE 0

ElementSep(d, v) == ElementNext(d, IF v = 0 THEN 0 ELSE SkipWs(d, v))

\* i is the index where an element is expected
ValidElements(d, i) == ElementSep(d, ValidAny(d, i))

\* i is the index after '{', m the index of the next byte that is no space
ValidObject(d, i, m) ==
  IF m <= Len(d) /\ d[m] = "}" THEN m + 1 ELSE ValidMembers(d, i)

\* i is the index after '[', m the index of the next byte that is no space
ValidArray(d, i, m) ==
  IF m <= Len(d) /\ d[m] = "]" THEN m + 1 ELSE ValidElements(d, i)

\* s is the index of the first byte of the value
ValidValue(d, s) ==
  IF s > Len(d) THEN 0
  ELSE IF d[s] = "{" THEN ValidObject(d, s + 1, SkipWs(d, s + 1))
  ELSE IF d[s] = "[" THEN ValidArray(d, s + 1, SkipWs(d, s + 1))
  ELSE IF d[s] = "\"" THEN ValidString(d, s + 1)
  ELSE IF d[s] = "-" \/ d[s] \in Digits THEN ValidNumber(d, s)
  ELSE IF d[s] = "t" THEN ValidLiteral(d, s, <<"t", "r", "u", "e">>)
  ELSE IF d[s] = "f" THEN ValidLiteral(d, s, <<"f", "a", "l", "s", "e">>)
  ELSE IF d[s] = "n" THEN ValidLiteral(d, s, <<"n", "u", "l", "l">>)
  ELSE 0

ValidAny(d, i) == ValidValue(d, SkipWs(d, i))

\* e is the index after the top-level value, 0 when it is malformed
ValidEnd(d, e) == e # 0 /\ SkipWs(d, e) = Len(d) + 1

\* gjson::valid(json)
valid(d) == ValidEnd(d, ValidAny(d, 1))

(***************************************************************************)
(* gjson::get and Value.  A path is a byte sequence; the paths of the model*)
(* are dotted object keys (no array index, wildcard, query or modifier),   *)
(* and the keys of its documents hold no escape.                           *)
(***************************************************************************)
NoValue == [exists |-> FALSE, kind |-> "Null", index |-> 0, raw |-> <<>>]

RECURSIVE SplitPath(_, _, _)
\* the components of path[i..] between dots, cur being the one under way
SplitPath(path, i, cur) ==
  IF i > Len(path) THEN <<cur>>
  ELSE IF path[i] = "." THEN <<cur>> \o SplitPath(path, i + 1, <<>>)
  ELSE SplitPath(path, i + 1, Append(cur, path[i]))

\* Value::kind() of the value whose first byte is b
KindOf(b) ==
  IF b = "\"" THEN "String"
  ELSE IF b = "{" THEN "Object"
  ELSE IF b = "[" THEN "Array"
  ELSE IF b = "t" THEN "True"
  ELSE IF b = "f" THEN "False"
  ELSE IF b = "n" THEN "Null"
  ELSE "Number"

RECURSIVE GetAt(_, _, _)
RECURSIVE GetMember(_, _, _)

\* s is the index after a skipped member and the whitespace behind it
GetMemberNext(d, keys, s) ==
  IF s <= Len(d) /\ d[s] = "," THEN GetMember(d, s + 1, keys) ELSE NoValue

\* v is the index after the value of a member that is not the one sought
GetMemberSkip(d, keys, v) ==
  IF v = 0 THEN NoValue ELSE GetMemberNext(d, keys, SkipWs(d, v))

\* the key is d[k+1 .. a-2]; c is the index where the colon is expected
GetMemberValue(d, keys, k, a, c) ==
  IF c = 0 \/ c > Len(d) \/ d[c] # ":" THEN NoValue
  ELSE IF SubSeq(d, k + 1, a - 2) = keys[1] THEN GetAt(d, c + 1, Tail(keys))
  ELSE GetMemberSkip(d, keys, ValidAny(d, c + 1))

GetMemberColon(d, keys, k, a) ==
  GetMemberValue(d, keys, k, a, IF a = 0 THEN 0 ELSE SkipWs(d, a))

GetMemberKey(d, keys, k) ==
  GetMemberColon(d, keys, k,
                 IF k <= Len(d) /\ d[k] = "\"" THEN ValidString(d, k + 1) ELSE 0)

\* the member named keys[1] of the object whose next key starts at or after i
GetMember(d, i, keys) == GetMemberKey(d, keys, SkipWs(d, i))

\* the value that occupies d[s .. e-1]
ValueAt(d, s, e) ==
  IF e = 0 THEN NoValue
  ELSE [exists |-> TRUE, kind |-> KindOf(d[s]), index |-> s,
        raw |-> SubSeq(d, s, e - 1)]

GetValue(d, keys, s) ==
  IF s > Len(d) THEN NoValue
  ELSE IF keys = <<>> THEN ValueAt(d, s, ValidValue(d, s))
  ELSE IF d[s] = "{" THEN GetMember(d, s + 1, keys)
  ELSE NoValue

\* the value reached by keys from the value that starts at or after i
GetAt(d, i, keys) == GetValue(d, keys, SkipWs(d, i))

\* gjson::get(json, path)
get(d, path) ==
  IF path = <<>> THEN NoValue ELSE GetAt(d, 1, SplitPath(path, 1, <<>>))

EscapeByte(b) ==
  IF b = "n" THEN "\n"
  ELSE IF b = "t" THEN "\t"
  ELSE IF b = "r" THEN "\r"
  ELSE b

RECURSIVE Unescape(_, _)
\* the content of a JSON string body s[i..] with its escapes resolved
\* (the documents of the model hold no \u escape)
Unescape(s, i) ==
  IF i > Len(s) THEN <<>>
  ELSE IF s[i] = "\\" /\ i + 1 <= Len(s)
    THEN <<EscapeByte(s[i + 1])>> \o Unescape(s, i + 2)
  ELSE <<s[i]>> \o Unescape(s, i + 1)

\* Value::str(): the unquoted, unescaped content of a String, the raw text
\* of a Number, an Object or an Array, the word of a boolean, "" for null
Str(v) ==
  IF v.kind = "String" THEN Unescape(SubSeq(v.raw, 2, Len(v.raw) - 1), 1)
  ELSE IF v.kind = "Null" THEN <<>>
  ELSE v.raw

\* the byte range of the value v of d replaced by value
Splice(d, v, value) ==
  IF ~v.exists THEN [ok |-> FALSE, doc |-> <<>>]
  ELSE [ok |-> TRUE,
        doc |-> SubSeq(d, 1, v.index - 1) \o value
                \o SubSeq(d, v.index + Len(v.raw), Len(d))]

\* gjson::set_overwrite(json, path, value): the byte range of the value at
\* path replaced by value, the rest of the document kept
set_overwrite(d, path, value) == Splice(d, get(d, path), value)

(***************************************************************************)
(* sha256::digest: a deterministic digest of fixed width in lower-case hex *)
(***************************************************************************)
DigestLen == 4
HexChars == <<"0", "1", "2", "3", "4", "5", "6", "7", "8", "9",
              "a", "b", "c", "d", "e", "f">>
ByteTable == <<"\"", "\\", "/", "*", "@", ".", "-", "0", "1", "2", "3", "4",
               "5", "6", "7", "8", "9", "a", "b", "c", "d", "e", "f", "g",
               "h", "i", "j", "k", "l", "m", "n", "o", "p", "q", "r", "s",
               "t", "u", "v", "w", "x", "y", "z", "xC3", "xA9", "xE2", "x82",
               "xAC", "\n", "\t", "\r", " ">>

ByteCode(b) ==
  IF \E i \in 1..Len(ByteTable) : ByteTable[i] = b
  THEN CHOOSE i \in 1..Len(ByteTable) : ByteTable[i] = b
  ELSE 0

RECURSIVE HashFrom(_, _, _)
HashFrom(bytes, i, h) ==
  IF i > Len(bytes) THEN h
  ELSE HashFrom(bytes, i + 1, (h * 31 + ByteCode(bytes[i]) + 7) % (16 ^ DigestLen))

RECURSIVE ToHex(_, _)
ToHex(h, n) ==
  IF n = 0 THEN <<>> ELSE ToHex(h \div 16, n - 1) \o <<HexChars[(h % 16) + 1]>>

digest(bytes) == ToHex(HashFrom(bytes, 1, 5), DigestLen)

(***************************************************************************)
(* transform.rs                                                            *)
(***************************************************************************)
Ok(doc) == [status |-> "ok", doc |-> doc, err |-> ""]
Err(msg) == [status |-> "err", doc |-> <<>>, err |-> msg]
Panic == [status |-> "panic", doc |-> <<>>, err |-> ""]

ErrUtf8 == Err("unable to parse data as UTF-8")
ErrKind == Err("unable to mask data: path is not a string or number")

\* the checks of validate_request on the decoded document
ValidateData(r, s) ==
  IF ~s.ok THEN ErrUtf8
  ELSE IF ~valid(s.str) THEN Err("data is not valid JSON")
  ELSE IF ~get(s.str, r.path).exists THEN Err("path not found in data")
  ELSE Ok(<<>>)

\* validate_request with the document looked at before the path
ValidateDataFirst(r, value_check) ==
  IF r.data = <<>> THEN Err("data cannot be empty")
  ELSE IF r.path = <<>> THEN Err("path cannot be empty")
  ELSE IF value_check /\ r.value = <<>> THEN Err("value cannot be empty")
  ELSE ValidateData(r, convert_bytes_to_string(r.data))

\* validate_request(req, value_check): Ok(()) or the first failing check
validate_request(r, value_check) ==
  IF r.path = <<>> THEN Err("path cannot be empty")
  ELSE IF r.data = <<>> THEN Err("data cannot be empty")
  ELSE IF value_check /\ r.value = <<>> THEN Err("value cannot be empty")
  ELSE ValidateData(r, convert_bytes_to_string(r.data))

\* .map_err(|e| TransformError::Generic(format!("...: {}", e)))
MapErr(w, msg) == IF w.ok THEN Ok(w.doc) ELSE Err(msg)

\* overwrite that wraps the replacement in quotes
OverwriteStrQuoting(r, s) ==
  IF ~s.ok THEN ErrUtf8
  ELSE MapErr(set_overwrite(s.str, r.path, <<"\"">> \o r.value \o <<"\"">>),
              "unable to overwrite data")

\* overwrite that hands back the new value in place of the document
OverwriteStrValueOnly(r, s) ==
  IF ~s.ok THEN ErrUtf8
  ELSE IF set_overwrite(s.str, r.path, r.value).ok THEN Ok(r.value)
  ELSE Err("unable to overwrite data")

OverwriteStr(r, s) ==
  IF ~s.ok THEN ErrUtf8
  ELSE MapErr(set_overwrite(s.str, r.path, r.value), "unable to overwrite data")

OverwriteChecked(r, v) ==
  IF v.status # "ok" THEN v ELSE OverwriteStr(r, convert_bytes_to_string(r.data))

\* overwrite(req)
overwrite(r) == OverwriteChecked(r, validate_request(r, TRUE))

Sha256Prefix == <<"s", "h", "a", "2", "5", "6", ":">>

\* format!("\"sha256:{}\"", hashed)
ObfuscatedText(hashed) == <<"\"">> \o Sha256Prefix \o hashed \o <<"\"">>

\* _obfuscate that digests the value as it stands in the document, quotes
\* and escapes included
ObfuscateRaw(data, path) ==
  MapErr(set_overwrite(data, path, ObfuscatedText(digest(get(data, path).raw))),
         "unable to obfuscate data")

\* _obfuscate(data, path)
obfuscate_(data, path) ==
  MapErr(set_overwrite(data, path, ObfuscatedText(digest(Str(get(data, path))))),
         "unable to obfuscate data")

\* obfuscate that takes numbers too, as its message says
ObfuscateKindOrNumber(data, path, kind) ==
  IF kind \in {"String", "Number"} THEN obfuscate_(data, path) ELSE ErrKind

\* the dispatch of obfuscate on the kind of the value at the path
ObfuscateKind(data, path, kind) ==
  IF kind = "String" THEN obfuscate_(data, path) ELSE ErrKind

ObfuscateStr(r, s) ==
  IF ~s.ok THEN ErrUtf8 ELSE ObfuscateKind(s.str, r.path, get(s.str, r.path).kind)

ObfuscateChecked(r, v) ==
  IF v.status # "ok" THEN v ELSE ObfuscateStr(r, convert_bytes_to_string(r.data))

\* obfuscate(req)
obfuscate(r) == ObfuscateChecked(r, validate_request(r, FALSE))

\* 0.8 * len rounded up
NumCharsToMaskCeil(len) == (8 * len + 9) \div 10

\* (0.8 * len as f64).round() as usize: 0.8 * len is never half-way between
\* two integers, so rounding to nearest is floor(0.8 * len + 0.5)
NumCharsToMask(len) == (8 * len + 5) \div 10

Repeat(c, n) == [i \in 1..n |-> c]

\* if quote { format!("\"{}\"", masked) }
MaskedText(masked, quote) ==
  IF quote THEN <<"\"">> \o masked \o <<"\"">> ELSE masked

\* _mask from the content s and num_chars_to_mask on: the subtraction of
\* usize and the slice [0..num_chars_to_skip] abort the call when they fail
MaskContents(data, path, mask_char, quote, s, num_chars_to_mask) ==
  IF num_chars_to_mask > Len(s) THEN Panic
  ELSE IF ~is_char_boundary(s, Len(s) - num_chars_to_mask) THEN Panic
  ELSE MapErr(set_overwrite(data, path,
                MaskedText(SubSeq(s, 1, Len(s) - num_chars_to_mask)
                           \o Repeat(mask_char, num_chars_to_mask), quote)),
              "unable to mask data")

MaskStr(data, path, mask_char, quote, s) ==
  MaskContents(data, path, mask_char, quote, s, NumCharsToMask(Len(s)))

\* _mask(data, path, mask_char, quote)
mask_(data, path, mask_char, quote) ==
  MaskStr(data, path, mask_char, quote, Str(get(data, path)))

\* mask that treats a number as it treats a string
MaskKindAlike(data, path, kind) ==
  IF kind \in {"String", "Number"} THEN mask_(data, path, "*", TRUE) ELSE ErrKind

\* the dispatch of mask on the kind of the value at the path
MaskKind(data, path, kind) ==
  IF kind = "String" THEN mask_(data, path, "*", TRUE)
  ELSE IF kind = "Number" THEN mask_(data, path, "0", FALSE)
  ELSE ErrKind

MaskDecoded(r, s) ==
  IF ~s.ok THEN ErrUtf8 ELSE MaskKind(s.str, r.path, get(s.str, r.path).kind)

MaskChecked(r, v) ==
  IF v.status # "ok" THEN v ELSE MaskDecoded(r, convert_bytes_to_string(r.data))

\* mask(req)
mask(r) == MaskChecked(r, validate_request(r, FALSE))

(***************************************************************************)
(* Requests.  The documents wrap one value under key k, alone or nested    *)
(* between siblings, or are TEST_DATA; the broken ones fail one check each.*)
(***************************************************************************)
MaxUnits == 3
MaxRun == 10

Q == "\""
Letters == <<"a", "b", "c", "d", "e", "f", "g", "h", "i", "j", "k", "l", "m",
             "n", "o", "p", "q", "r", "s", "t", "u", "v", "w", "x", "y", "z">>

RECURSIVE Flatten(_)
Flatten(ss) == IF ss = <<>> THEN <<>> ELSE Head(ss) \o Flatten(Tail(ss))

Quoted(body) == <<Q>> \o body \o <<Q>>

\* what a string body is built from: a letter, an escaped quote, the two
\* bytes of U+00E9
Units == {<<"a">>, <<"\\", Q>>, <<"xC3", "xA9">>}

UnitBodies ==
  UNION {{Flatten(us) : us \in [1..n -> Units]} : n \in 0..MaxUnits}

RunBodies == {SubSeq(Letters, 1, n) : n \in 0..MaxRun}

OtherBodies ==
  {<<"\\", "\\", "a", "b", "c", "d">>, <<"a", "\\", "n", "b">>,
   <<"xE2", "x82", "xAC", "a", "b">>, <<"a", "b", "xE2", "x82", "xAC">>}

StringValues == {Quoted(b) : b \in UnitBodies \cup RunBodies \cup OtherBodies}

NumberValues ==
  {<<"0">>, <<"7">>, <<"4", "2">>, <<"-", "1">>, <<"1", ".", "5">>,
   <<"1", "2", "3", "4", "5">>, <<"-", "1", "2", "3", "4">>,
   <<"1", "e", "5">>, <<"9", "8", "7", "6", "5", "4", "3", "2", "1", "0">>}

OtherValues ==
  {<<"t", "r", "u", "e">>, <<"f", "a", "l", "s", "e">>, <<"n", "u", "l", "l">>,
   <<"{", "}">>, <<"{", Q, "q", Q, ":", "1", "}">>, <<"[", "]">>,
   <<"[", "1", ",", " ", Q, "a", Q, "]">>}

Flat(v) == <<"{", Q, "k", Q, ":">> \o v \o <<"}">>
Nested(v) ==
  <<"{", Q, "a", Q, ":", " ", Q, "x", Q, ",", "\n", " ", Q, "o", Q, ":", " ",
    "{", Q, "k", Q, ":", " ">> \o v
  \o <<"}", ",", " ", Q, "b", Q, ":", "t", "r", "u", "e", "}">>

Word(w) == Quoted(w)

\* TEST_DATA
TestData ==
  <<"{", "\n", " ">> \o Word(<<"f", "o", "o">>) \o <<":", " ">>
  \o Word(<<"b", "a", "r">>) \o <<",", "\n", " ">>
  \o Word(<<"b", "a", "z">>) \o <<":", " ", "{", "\n", " ", " ">>
  \o Word(<<"q", "u", "x">>) \o <<":", " ">> \o Word(<<"q", "u", "u", "x">>)
  \o <<"\n", " ", "}", ",", "\n", " ">>
  \o Word(<<"r", "e", "c", "i", "p", "i", "e", "n", "t">>) \o <<":", " ">>
  \o Word(<<"t", "l", "e", "d", "w", "i", "c", "h", "b", "9", "@", "w", "s",
            "j", ".", "c", "o", "m">>)
  \o <<",", "\n", " ">> \o Word(<<"b", "o", "o", "l">>)
  \o <<":", " ", "t", "r", "u", "e", "\n", "}">>

BrokenDocs ==
  {<<>>, <<"xFF">>, <<"{", "xFF">>, Flat(<<Q, "xC3", Q>>), <<"{", Q, "k", Q, ":">>,
   Flat(<<"t", "r", "u">>), <<"{", Q, "k", Q, ":", "1", ",", "}">>,
   Flat(<<"0", "1">>)}

PathK == <<"k">>
PathOK == <<"o", ".", "k">>
Paths == {<<>>, PathK, PathOK, <<"b">>, <<"o">>, <<"z", "z">>, <<"k", ".", "k">>}

PathRecipient == <<"r", "e", "c", "i", "p", "i", "e", "n", "t">>
PathBazQux == <<"b", "a", "z", ".", "q", "u", "x">>
TestPaths ==
  {PathRecipient, PathBazQux, <<"b", "o", "o", "l">>, <<"b", "a", "z">>,
   <<"d", "o", "e", "s", "-", "n", "o", "t", "-", "e", "x", "i", "s", "t">>}

QuotedTest == Word(<<"t", "e", "s", "t">>)
Replacements ==
  {<<>>, QuotedTest, <<"t", "r", "u", "e">>, <<"4", "2">>,
   <<"n", "u", "l", "l">>, <<"{", Q, "x", Q, ":", "[", "1", "]", "}">>,
   <<"-", "0", ".", "5", "e", "3">>, <<Q, "\\", Q, Q>>}

SampleValues ==
  {Quoted(<<"a", "b">>), <<"4", "2">>} \cup OtherValues

Request(d, p, v) == [data |-> d, path |-> p, value |-> v]

Requests ==
  {Request(w[1], w[2], v) :
     w \in {<<Flat(x), PathK>> : x \in StringValues \cup NumberValues}
           \cup {<<Nested(x), PathOK>> : x \in StringValues \cup NumberValues},
     v \in {<<>>, QuotedTest}}
  \cup {Request(d, p, v) :
     d \in {Flat(x) : x \in SampleValues} \cup {Nested(x) : x \in SampleValues}
           \cup BrokenDocs,
     p \in Paths, v \in Replacements}
  \cup {Request(TestData, p, v) : p \in TestPaths, v \in {<<>>, QuotedTest}}

(***************************************************************************)
(* The state: one request, and the last two calls made on it with what     *)
(* they returned.  given is the request as the caller built it.            *)
(***************************************************************************)
VARIABLES req, given, op, result, prevOp, prev

vars == <<req, given, op, result, prevOp, prev>>

NoResult == [status |-> "none", doc |-> <<>>, err |-> ""]

Init ==
  /\ req \in Requests
  /\ given = req
  /\ op = "none"
  /\ result = NoResult
  /\ prevOp = "none"
  /\ prev = NoResult

Overwrite ==
  /\ result' = overwrite(req)
  /\ op' = "overwrite"
  /\ prevOp' = op
  /\ prev' = result
  /\ UNCHANGED <<req, given>>

Obfuscate ==
  /\ result' = obfuscate(req)
  /\ op' = "obfuscate"
  /\ prevOp' = op
  /\ prev' = result
  /\ UNCHANGED <<req, given>>

Mask ==
  /\ result' = mask(req)
  /\ op' = "mask"
  /\ prevOp' = op
  /\ prev' = result
  /\ UNCHANGED <<req, given>>

Next == Overwrite \/ Obfuscate \/ Mask

Spec == Init /\ [][Next]_vars

(***************************************************************************)
(* What the claims speak of                                                *)
(***************************************************************************)
\* checks 1-6 of the validator all pass on request r
Passes(r, value_check) ==
  /\ r.path # <<>>
  /\ r.data # <<>>
  /\ value_check => r.value # <<>>
  /\ Utf8From(r.data, 1)
  /\ valid(r.data)
  /\ get(r.data, r.path).exists

\* the value at the path in the request's document
Old == get(req.data, req.path)

\* the bytes the returned document holds where the old value stood
Written ==
  SubSeq(result.doc, Old.index,
         Old.index + Len(Old.raw) - 1 + Len(result.doc) - Len(req.data))

\* Written without its first and last byte
WrittenBody == SubSeq(Written, 2, Len(Written) - 1)

\* v is one JSON value with nothing before or after it
WellFormed(v) == v # <<>> /\ ValidValue(v, 1) = Len(v) + 1

RECURSIVE CharCount(_, _)
\* the number of characters of s[i..]: the bytes that start one
CharCount(s, i) ==
  IF i > Len(s) THEN 0
  ELSE (IF s[i] \in Cont THEN 0 ELSE 1) + CharCount(s, i + 1)

RECURSIVE TakeChars(_, _, _)
\* the bytes of the first n characters of s[i..]
TakeChars(s, i, n) ==
  IF i > Len(s) THEN <<>>
  ELSE IF s[i] \notin Cont /\ n = 0 THEN <<>>
  ELSE <<s[i]>> \o TakeChars(s, i + 1, IF s[i] \in Cont THEN n ELSE n - 1)

Stars(n) == [i \in 1..n |-> "*"]
Zeros(n) == [i \in 1..n |-> "0"]
Tled == <<"t", "l", "e", "d">>

CheckMessages ==
  <<"path cannot be empty", "data cannot be empty", "value cannot be empty",
    "unable to parse data as UTF-8", "data is not valid JSON",
    "path not found in data">>

\* which of the six checks request r fails, each taken alone
CheckFails(r, value_check) ==
  <<r.path = <<>>, r.data = <<>>, value_check /\ r.value = <<>>,
    ~Utf8From(r.data, 1), ~valid(r.data), ~get(r.data, r.path).exists>>

(***************************************************************************)
(* C1: whichever of overwrite, obfuscate and mask is called, the error     *)
(* returned is that of the first check that fails in the order path        *)
(* non-empty, document non-empty, replacement non-empty (overwrite only),  *)
(* UTF-8, JSON, path exists: check n's error is returned exactly when      *)
(* check n fails and checks 1..n-1 pass.                                   *)
(***************************************************************************)
C1_FirstFailingCheck ==
  op # "none" =>
    LET fails == CheckFails(req, op = "overwrite")
    IN  \A n \in 1..6 :
          (result.status = "err" /\ result.err = CheckMessages[n])
            <=> (fails[n] /\ \A m \in 1..(n - 1) : ~fails[m])

\* an empty path wins over a document that is not even UTF-8
C1_Witness ==
  /\ op = "overwrite"
  /\ req.path = <<>>
  /\ req.value = <<>>
  /\ ~Utf8From(req.data, 1)
  /\ result.err = "path cannot be empty"

(***************************************************************************)
(* C2: for a String or Number whose content has L characters, mask writes  *)
(* the first L - round(0.8 L) characters of the content followed by        *)
(* round(0.8 L) mask characters (between quotes for a String).             *)
(***************************************************************************)
C2_MaskRatioInCharacters ==
  (op = "mask" /\ Passes(req, FALSE) /\ Old.kind \in {"String", "Number"}) =>
    LET s == Str(Old)
        L == CharCount(s, 1)
        n == NumCharsToMask(L)
    IN  /\ result.status = "ok"
        /\ IF Old.kind = "String"
           THEN Written = <<Q>> \o TakeChars(s, 1, L - n) \o Stars(n) \o <<Q>>
           ELSE Written = TakeChars(s, 1, L - n) \o Zeros(n)

C4_ObfuscateDigest ==
  (op = "obfuscate" /\ Passes(req, FALSE) /\ Old.kind = "String") =>
    /\ result.status = "ok"
    /\ Written = <<Q>> \o Sha256Prefix \o digest(Str(Old)) \o <<Q>>
    /\ get(result.doc, req.path).kind = "String"
    /\ Str(get(result.doc, req.path)) = Sha256Prefix \o digest(Str(Old))
    /\ \A v \in Replacements : obfuscate([req EXCEPT !.value = v]) = result
    /\ prevOp = "obfuscate" => prev = result

\* a string with an escape in it has been obfuscated twice, a replacement given
C4_Witness ==
  /\ op = "obfuscate"
  /\ prevOp = "obfuscate"
  /\ Passes(req, FALSE)
  /\ Old.kind = "String"
  /\ Str(Old) # SubSeq(Old.raw, 2, Len(Old.raw) - 1)
  /\ req.value # <<>>
  /\ result.status = "ok"

(***************************************************************************)
(* C5: obfuscate on a request that passes validation and whose value is no *)
(* String returns the kind error and no document, for a Number too.        *)
(***************************************************************************)
C5_ObfuscateTypeGuard ==
  (op = "obfuscate" /\ Passes(req, FALSE) /\ Old.kind # "String") =>
    result = ErrKind

\* obfuscate has refused a number
C5_Witness ==
  /\ op = "obfuscate"
  /\ Passes(req, FALSE)
  /\ Old.kind = "Number"
  /\ result.status = "err"

(***************************************************************************)
(* C6: overwrite with a well-formed replacement on a valid document and an *)
(* existing path succeeds whatever the kind of the old value, and the      *)
(* value read at the path of the returned document is the replacement.     *)
(***************************************************************************)
C6_OverwriteRoundTrip ==
  (op = "overwrite" /\ Passes(req, TRUE) /\ WellFormed(req.value)) =>
    /\ result.status = "ok"
    /\ Written = req.value
    /\ get(result.doc, req.path).exists
    /\ get(result.doc, req.path).raw = req.value

\* a boolean has been overwritten with a quoted string
C6_Witness ==
  /\ op = "overwrite"
  /\ Passes(req, TRUE)
  /\ Old.kind = "True"
  /\ req.value = QuotedTest
  /\ result.status = "ok"

(***************************************************************************)
(* C7: a call that succeeds returns the request's document with the bytes  *)
(* before and the bytes after the value at the path unchanged; a call that *)
(* fails returns no document; the request is as the caller built it.       *)
(***************************************************************************)
C7_Frame ==
  /\ req = given
  /\ op # "none" =>
       IF result.status = "ok"
       THEN /\ Passes(req, FALSE)
            /\ LET before == Old.index - 1
                   after == Len(req.data) - before - Len(Old.raw)
               IN  /\ Len(result.doc) >= before + after
                   /\ SubSeq(result.doc, 1, before) = SubSeq(req.data, 1, before)
                   /\ SubSeq(result.doc, Len(result.doc) - after + 1, Len(result.doc))
                      = SubSeq(req.data, Len(req.data) - after + 1, Len(req.data))
       ELSE result.doc = <<>>

\* a value nested between siblings has been replaced by a longer one
C7_Witness ==
  /\ op = "overwrite"
  /\ req.path = PathOK
  /\ result.status = "ok"
  /\ Len(result.doc) > Len(req.data)
  /\ Old.index > 1
  /\ Old.index + Len(Old.raw) <= Len(req.data)

Scenario == op = "mask" /\ req.data = TestData /\ req.path = PathRecipient

ScenarioValue == Str(get(result.doc, PathRecipient))

MaskedCount(s) == Cardinality({i \in 1..Len(s) : s[i] = "*"})

C9_ScenarioAsClaimed ==
  Scenario =>
    /\ result.status = "ok"
    /\ SubSeq(ScenarioValue, 1, 4) = Tled
    /\ MaskedCount(ScenarioValue) = 15
    /\ Len(ScenarioValue) = 19

C9_ScenarioAmended ==
  Scenario =>
    /\ result.status = "ok"
    /\ ScenarioValue = Tled \o Stars(14)
    /\ MaskedCount(ScenarioValue) = 14
    /\ Len(ScenarioValue) = 18

C9_Witness == Scenario /\ result.status = "ok"

(***************************************************************************)
(* C10: mask never aborts: it returns a document or an error.              *)
(***************************************************************************)
C10_MaskNeverAborts ==
  op = "mask" => result.status \in {"ok", "err"}

=============================================================================
